---- MODULE Spec2Model ----
(***************************************************************************)
(* Model of the benchmark reporting scripts prompt-comparisons.py and      *)
(* metric-perfs.py: loading newline-delimited JSON records, grouping them  *)
(* by experimental condition and framework, computing per-group means and  *)
(* deriving the fastest framework with its percentage margin.              *)
(*                                                                         *)
(* Numbers are exact rationals n/d in lowest terms. Python computes in     *)
(* binary floating point; for the magnitudes modelled here the two agree   *)
(* on every comparison, and round(x, 2) is modelled as rounding to the     *)
(* nearest hundredth, halves to even.                                      *)
(***************************************************************************)
EXTENDS Integers, Sequences, FiniteSets

VARIABLES script, file, i, data, errors, pc, df, todo, charts, status, cw

vars == <<script, file, i, data, errors, pc, df, todo, charts, status, cw>>

\* ------------------------------------------------------------------ bounds
MaxLines == 3
MaxNum == 32
MaxDen == 2

\* ------------------------------------------------------------------ values
RECURSIVE GCD(_, _)
GCD(a, b) == IF b = 0 THEN a ELSE GCD(b, a % b)

\* A value of a cell: a finite rational, a string, NaN, None or +infinity.
Rat(n, d) ==
    LET g == GCD(n, d)
    IN  [k |-> "num", n |-> n \div g, d |-> d \div g, s |-> ""]

Num(n) == Rat(n, 1)

Str(x) == [k |-> "str", n |-> 0, d |-> 1, s |-> x]

NaN == [k |-> "nan", n |-> 0, d |-> 1, s |-> ""]

None == [k |-> "none", n |-> 0, d |-> 1, s |-> ""]

Inf == [k |-> "inf", n |-> 0, d |-> 1, s |-> ""]

\* A test for None alone, which lets NaN through.
IsNoneOnly(x) == x.k = "none"

\* pd.isna: true of None and NaN, false of every number including inf.
isna(x) == x.k \in {"nan", "none"}

\* Python's < on floats (finite or +inf, never NaN here).
Lt(a, b) ==
    CASE a.k = "num" /\ b.k = "num" -> a.n * b.d < b.n * a.d
      [] a.k = "num" /\ b.k = "inf" -> TRUE
      [] OTHER -> FALSE

AddRat(a, b) == Rat(a.n * b.d + b.n * a.d, a.d * b.d)

\* Nearest integer to p/q (p >= 0, q > 0), halves to even.
RoundHalfEven(p, q) ==
    LET fl == p \div q
        rem == p % q
    IN  IF 2 * rem < q THEN fl
        ELSE IF 2 * rem > q THEN fl + 1
        ELSE IF fl % 2 = 0 THEN fl ELSE fl + 1

\* round(x, 2)
round2(x) ==
    IF x.k = "num" THEN Rat(RoundHalfEven(100 * x.n, x.d), 100) ELSE x

\* The margin taken as a share of the smaller value.
PercentOfSmaller(lo, hi) ==
    IF hi.k = "inf" \/ lo.n = 0 THEN NaN
    ELSE Rat(100 * (hi.n * lo.d - lo.n * hi.d), lo.n * hi.d)

\* 100 * (hi - lo) / hi for lo < hi; inf/inf is NaN.
PercentFaster(lo, hi) ==
    IF hi.k = "inf" THEN NaN
    ELSE Rat(100 * (hi.n * lo.d - lo.n * hi.d), hi.n * lo.d)

\* compute_winner with <= for its first comparison: equal values go to vllm.
compute_winner_le(v, s) ==
    IF isna(v) \/ isna(s)
    THEN [Fastest |-> "N/A", percent |-> Num(0), compared |-> FALSE, divided |-> FALSE]
    ELSE IF ~Lt(s, v)
    THEN [Fastest |-> "vllm", percent |-> Num(0), compared |-> TRUE, divided |-> TRUE]
    ELSE [Fastest |-> "sgl", percent |-> round2(PercentFaster(s, v)),
          compared |-> TRUE, divided |-> TRUE]

\* compute_winner, statement by statement: the result with the operations that
\* were executed on the arguments on the way to it.
compute_winner_run(v, s) ==
    IF isna(v) \/ isna(s)
    THEN [Fastest |-> "N/A", percent |-> Num(0), compared |-> FALSE, divided |-> FALSE]
    ELSE IF Lt(v, s)
    THEN [Fastest |-> "vllm", percent |-> round2(PercentFaster(v, s)),
          compared |-> TRUE, divided |-> TRUE]
    ELSE IF Lt(s, v)
    THEN [Fastest |-> "sgl", percent |-> round2(PercentFaster(s, v)),
          compared |-> TRUE, divided |-> TRUE]
    ELSE [Fastest |-> "Tie", percent |-> Num(0), compared |-> TRUE, divided |-> FALSE]

\* The tuple (Fastest, percent_faster) compute_winner returns.
compute_winner(v, s) ==
    <<compute_winner_run(v, s).Fastest, compute_winner_run(v, s).percent>>

\* ------------------------------------------------------------------ input
\* A line of results.json is a sequence of tokens: whitespace (blanks and the
\* newline), braces, text that is no JSON, and "key": value members.
WS == [t |-> "ws", key |-> "", val |-> None]

LBrace == [t |-> "lbrace", key |-> "", val |-> None]

RBrace == [t |-> "rbrace", key |-> "", val |-> None]

Junk == [t |-> "junk", key |-> "", val |-> None]

Field(key, val) == [t |-> "field", key |-> key, val |-> val]

metrics_to_summary == <<"mean_ttft_ms", "mean_tpot_ms", "mean_itl_ms">>

\* The text of one benchmark record, ended by its newline.
RecordLine(fw, np, rr, model, ttft, tpot, itl) ==
    <<LBrace, Field("framework", Str(fw)), Field("model_id", Str(model)),
      Field("num_prompts", Num(np)), Field("request_rate", rr),
      Field("mean_ttft_ms", Num(ttft)), Field("mean_tpot_ms", Num(tpot)),
      Field("mean_itl_ms", Num(itl)), RBrace, WS>>

\* The lines a results.json is made of here: a blank line, the malformed line
\* "{not json", and seven records (the benchmark writes an unbounded request
\* rate as the string "inf").
BlankLine == <<WS>>

MalformedLine == <<LBrace, Junk, WS>>

Lines ==
    { BlankLine, MalformedLine,
      <<WS>> \o RecordLine("vllm", 1, Num(1), "m1", 10, 15, 7),
      RecordLine("sgl", 1, Num(1), "m1", 20, 15, 5),
      RecordLine("vllm", 1, Num(1), "m2", 30, 16, 9),
      RecordLine("vllm", 1, Str("inf"), "m1", 10, 12, 8),
      RecordLine("sgl", 1, Num(40), "m1", 15, 11, 8),
      RecordLine("vllm", 2, Num(1), "m1", 12, 9, 3),
      RecordLine("sgl", 2, Str("inf"), "m1", 14, 9, 4) }

RECURSIVE SeqsUpTo(_, _)
SeqsUpTo(S, n) ==
    IF n = 0 THEN {<<>>}
    ELSE LET shorter == SeqsUpTo(S, n - 1)
         IN  shorter \cup {Append(q, x) : q \in {r \in shorter : Len(r) = n - 1}, x \in S}

Files == SeqsUpTo(Lines, MaxLines)

\* ------------------------------------------------------------------ load_data
RECURSIVE lstrip(_)
lstrip(line) ==
    IF line # <<>> /\ Head(line).t = "ws" THEN lstrip(Tail(line)) ELSE line

RECURSIVE rstrip(_)
rstrip(line) ==
    IF line # <<>> /\ line[Len(line)].t = "ws"
    THEN rstrip(SubSeq(line, 1, Len(line) - 1))
    ELSE line

\* str.strip()
strip(line) == rstrip(lstrip(line))

\* json.loads on a stripped line: an object when the text is a brace-enclosed
\* list of members (a repeated key keeps its last value), an error otherwise.
json_loads(text) ==
    LET n == Len(text)
        wellformed ==
            /\ n >= 2
            /\ text[1].t = "lbrace"
            /\ text[n].t = "rbrace"
            /\ \A j \in 2..(n - 1) : text[j].t = "field"
        keys == {text[j].key : j \in 2..(n - 1)}
        last(key) == CHOOSE j \in 2..(n - 1) :
                        /\ text[j].key = key
                        /\ \A h \in (j + 1)..(n - 1) : text[h].key # key
    IN  IF wellformed
        THEN [ok |-> TRUE, record |-> [key \in keys |-> text[last(key)].val]]
        ELSE [ok |-> FALSE, record |-> <<>>]

\* pd.DataFrame(data): the columns are the keys of the records, a record
\* without a column holds NaN there.
DataFrame(records) ==
    LET columns == UNION {DOMAIN records[j] : j \in 1..Len(records)}
    IN  [columns |-> columns,
         rows |-> [j \in 1..Len(records) |->
                     [c \in columns |->
                        IF c \in DOMAIN records[j] THEN records[j][c] ELSE NaN]]]

\* A check that takes every frame for non-empty.
NeverEmpty(frame) == FALSE

\* df.empty
empty(frame) == frame.rows = <<>> \/ frame.columns = {}

NoFrame == [columns |-> {}, rows |-> <<>>]

\* The loop without its try/except: the first line that does not parse ends
\* the run with the exception.
LoadLineAbort ==
    /\ pc = "load"
    /\ i < Len(file)
    /\ LET line == strip(file[i + 1])
           parsed == json_loads(line)
       IN  IF line = <<>>
           THEN i' = i + 1 /\ UNCHANGED <<data, errors, pc, status>>
           ELSE IF parsed.ok
           THEN /\ data' = Append(data, parsed.record)
                /\ i' = i + 1
                /\ UNCHANGED <<errors, pc, status>>
           ELSE /\ pc' = "done"
                /\ status' = "JSONDecodeError"
                /\ UNCHANGED <<data, errors, i>>
    /\ UNCHANGED <<script, file, df, todo, charts, cw>>

\* One iteration of the loop of load_data over the lines of the file.
LoadLine ==
    /\ pc = "load"
    /\ i < Len(file)
    /\ LET line == strip(file[i + 1])
           parsed == json_loads(line)
       IN  IF line = <<>>
           THEN UNCHANGED <<data, errors>>
           ELSE IF parsed.ok
           THEN data' = Append(data, parsed.record) /\ UNCHANGED errors
           ELSE errors' = errors + 1 /\ UNCHANGED data
    /\ i' = i + 1
    /\ UNCHANGED <<script, file, pc, df, todo, charts, status, cw>>

\* End of file: load_data returns the frame of the records read.
LoadReturn ==
    /\ pc = "load"
    /\ i = Len(file)
    /\ df' = DataFrame(data)
    /\ pc' = "loaded"
    /\ UNCHANGED <<script, file, i, data, errors, todo, charts, status, cw>>

\* main: no data loaded, print the message and return.
MainEmpty ==
    /\ pc = "loaded"
    /\ empty(df)
    /\ pc' = "done"
    /\ status' = "empty"
    /\ UNCHANGED <<script, file, i, data, errors, df, todo, charts, cw>>

\* ------------------------------------------------------------------ frames
\* Lexicographic order of two keys (sequences of numbers of one length).
RECURSIVE KeyLt(_, _)
KeyLt(a, b) ==
    IF a = <<>> THEN FALSE
    ELSE IF Lt(Head(a), Head(b)) THEN TRUE
    ELSE IF Lt(Head(b), Head(a)) THEN FALSE
    ELSE KeyLt(Tail(a), Tail(b))

\* The keys of a set in ascending order.
RECURSIVE SortKeys(_)
SortKeys(S) ==
    IF S = {} THEN <<>>
    ELSE LET least == CHOOSE a \in S : \A b \in S \ {a} : KeyLt(a, b)
         IN  <<least>> \o SortKeys(S \ {least})

RECURSIVE SumOf(_)
SumOf(values) ==
    IF values = <<>> THEN Num(0) ELSE AddRat(Head(values), SumOf(Tail(values)))

\* The values of a column that are not NaN, in row order.
RECURSIVE ColumnVals(_, _)
ColumnVals(rows, col) ==
    IF rows = <<>> THEN <<>>
    ELSE IF isna(Head(rows)[col]) THEN ColumnVals(Tail(rows), col)
    ELSE <<Head(rows)[col]>> \o ColumnVals(Tail(rows), col)

\* Series.mean(): the mean of the values that are not NaN, NaN when none is.
mean(values) ==
    IF values = <<>> THEN NaN
    ELSE LET total == SumOf(values)
         IN  Rat(total.n, total.d * Len(values))

\* pd.to_numeric(x, errors='coerce')
to_numeric(x) ==
    CASE x.k \in {"num", "inf"} -> x
      [] x.k = "str" /\ x.s = "inf" -> Inf
      [] OTHER -> NaN

\* The value that stands for an unbounded request rate in the charts.
InfinitePlaceholder == 40

\* main, lines 193-196: request_rate made numeric, infinity replaced by 40.
NormaliseRate(frame) ==
    [frame EXCEPT !.rows =
        [j \in 1..Len(frame.rows) |->
            LET numeric == to_numeric(frame.rows[j]["request_rate"])
            IN  [frame.rows[j] EXCEPT !["request_rate"] =
                    IF numeric = Inf THEN Num(InfinitePlaceholder) ELSE numeric]]]

\* df.groupby(['num_prompts', 'request_rate', 'framework'])[metric].mean():
\* one group per key occurring in the frame (a NaN in the key drops the row),
\* holding the mean of the metric over the rows of that key.
GroupKeys(frame) ==
    {<<frame.rows[j]["num_prompts"], frame.rows[j]["request_rate"],
       frame.rows[j]["framework"]>> :
        j \in {h \in 1..Len(frame.rows) :
                 /\ ~isna(frame.rows[h]["num_prompts"])
                 /\ ~isna(frame.rows[h]["request_rate"])
                 /\ ~isna(frame.rows[h]["framework"])}}

\* Group membership that forgets the framework.
InGroupAnyFramework(row, key) ==
    /\ row["num_prompts"] = key[1]
    /\ row["request_rate"] = key[2]

InGroup(row, key) ==
    /\ row["num_prompts"] = key[1]
    /\ row["request_rate"] = key[2]
    /\ row["framework"] = key[3]

GroupMean(frame, metric, key) ==
    mean(ColumnVals(SelectSeq(frame.rows, LAMBDA row : InGroup(row, key)), metric))

\* df_grouped.pivot(index=['num_prompts', 'request_rate'], columns='framework'):
\* a row per (num_prompts, request_rate) in ascending order, a column per
\* framework of the grouped frame, NaN where the framework has no group.
Pivot(frame, metric) ==
    LET groups == GroupKeys(frame)
        index == SortKeys({<<g[1], g[2]>> : g \in groups})
        columns == {g[3].s : g \in groups}
    IN  [columns |-> columns,
         rows |-> [j \in 1..Len(index) |->
            [num_prompts |-> index[j][1],
             request_rate |-> index[j][2],
             cells |-> [fw \in columns |->
                IF <<index[j][1], index[j][2], Str(fw)>> \in groups
                THEN GroupMean(frame, metric, <<index[j][1], index[j][2], Str(fw)>>)
                ELSE NaN]]]]

\* The pivot left in the order pivot gave it.
KeepPivotOrder(rows) == rows

\* df_pivot.sort_index(level='request_rate', ascending=True): ordered by the
\* request_rate level, then by the remaining level num_prompts.
sort_index(rows) ==
    LET order == SortKeys({<<rows[j].request_rate, rows[j].num_prompts>> :
                              j \in 1..Len(rows)})
        at(key) == CHOOSE j \in 1..Len(rows) :
                      rows[j].request_rate = key[1] /\ rows[j].num_prompts = key[2]
    IN  [j \in 1..Len(order) |-> rows[at(order[j])]]

\* row.get(name): the cell, None when the pivot has no such column.
RowGet(row, fw) == IF fw \in DOMAIN row.cells THEN row.cells[fw] ELSE None

\* Lines 57-66: the pivot with the columns Fastest and Faster by (%).
Summary(frame, metric) ==
    LET pivot == Pivot(frame, metric)
        sorted == sort_index(pivot.rows)
    IN  [columns |-> pivot.columns,
         rows |-> [j \in 1..Len(sorted) |->
            LET result == compute_winner(RowGet(sorted[j], "vllm"),
                                         RowGet(sorted[j], "sgl"))
            IN  [num_prompts |-> sorted[j].num_prompts,
                 request_rate |-> sorted[j].request_rate,
                 cells |-> sorted[j].cells,
                 Fastest |-> result[1],
                 FasterBy |-> result[2]]]]

\* Line 112: the request_rate column of the table, 40 shown as "infinite".
RateLabel(val) == IF val = Num(InfinitePlaceholder) THEN Str("infinite") ELSE val

\* f"{val:.2f}"
Format2(val) == IF val.k = "num" THEN round2(val) ELSE val

\* Lines 109-133: the cells of the table, row by row.
Table(summary) ==
    [j \in 1..Len(summary.rows) |->
        [request_rate |-> RateLabel(summary.rows[j].request_rate),
         num_prompts |-> summary.rows[j].num_prompts,
         vllm |-> Format2(summary.rows[j].cells["vllm"]),
         sgl |-> Format2(summary.rows[j].cells["sgl"]),
         Fastest |-> summary.rows[j].Fastest,
         FasterBy |-> Format2(summary.rows[j].FasterBy)]]

\* ------------------------------------------------------------------ prompt-comparisons.py
\* main, lines 190-199: the frame is not empty; request_rate is normalised and
\* the loop over the three metrics begins.
MainPrepareSummary ==
    /\ pc = "loaded"
    /\ script = "prompt-comparisons"
    /\ ~empty(df)
    /\ IF "request_rate" \in df.columns
       THEN /\ df' = NormaliseRate(df)
            /\ todo' = metrics_to_summary
            /\ pc' = "plot"
            /\ UNCHANGED status
       ELSE /\ status' = "KeyError"
            /\ pc' = "done"
            /\ UNCHANGED <<df, todo>>
    /\ UNCHANGED <<script, file, i, data, errors, charts, cw>>

\* plot_metric_summary_with_table for the next metric: the figure with its bar
\* traces and its table, or the KeyError of a column the frame does not have.
PlotMetricSummary ==
    /\ pc = "plot"
    /\ script = "prompt-comparisons"
    /\ todo # <<>>
    /\ LET metric == Head(todo)
       IN  IF {"num_prompts", "request_rate", "framework", metric} \subseteq df.columns
              /\ {"vllm", "sgl"} \subseteq Summary(df, metric).columns
           THEN /\ charts' = Append(charts,
                        [metric |-> metric,
                         summary |-> Summary(df, metric).rows,
                         table |-> Table(Summary(df, metric))])
                /\ todo' = Tail(todo)
                /\ UNCHANGED <<pc, status>>
           ELSE /\ status' = "KeyError"
                /\ pc' = "done"
                /\ UNCHANGED <<charts, todo>>
    /\ UNCHANGED <<script, file, i, data, errors, df, cw>>

\* ------------------------------------------------------------------ metric-perfs.py
\* Series.unique(): the distinct values in order of first appearance.
RECURSIVE unique(_)
unique(values) ==
    IF values = <<>> THEN <<>>
    ELSE LET front == unique(SubSeq(values, 1, Len(values) - 1))
             x == values[Len(values)]
         IN  IF \E j \in 1..Len(front) : front[j] = x THEN front ELSE Append(front, x)

Column(frame, col) == [j \in 1..Len(frame.rows) |-> frame.rows[j][col]]

\* main, lines 152-159: the frame is not empty; one chart per num_prompts value.
MainPreparePrompts ==
    /\ pc = "loaded"
    /\ script = "metric-perfs"
    /\ ~empty(df)
    /\ IF "num_prompts" \in df.columns
       THEN /\ todo' = unique(Column(df, "num_prompts"))
            /\ pc' = "plot"
            /\ UNCHANGED status
       ELSE /\ status' = "KeyError"
            /\ pc' = "done"
            /\ UNCHANGED todo
    /\ UNCHANGED <<script, file, i, data, errors, df, charts, cw>>

\* The summary taken over the whole frame, the num_prompts filter left out.
PromptSummaryUnfiltered(frame, num_prompts) ==
    LET frameworks == {frame.rows[j]["framework"].s :
                          j \in {h \in 1..Len(frame.rows) : ~isna(frame.rows[h]["framework"])}}
    IN  [fw \in frameworks |->
            [metric \in {metrics_to_summary[m] : m \in 1..Len(metrics_to_summary)} |->
                mean(ColumnVals(SelectSeq(frame.rows,
                                          LAMBDA row : row["framework"] = Str(fw)),
                                metric))]]

\* Lines 52-64: the rows of one num_prompts value, and the mean of each metric
\* per framework over them.
PromptSummary(frame, num_prompts) ==
    LET df_prompt == SelectSeq(frame.rows, LAMBDA row : row["num_prompts"] = num_prompts)
        frameworks == {df_prompt[j]["framework"].s :
                          j \in {h \in 1..Len(df_prompt) : ~isna(df_prompt[h]["framework"])}}
    IN  [fw \in frameworks |->
            [metric \in {metrics_to_summary[m] : m \in 1..Len(metrics_to_summary)} |->
                mean(ColumnVals(SelectSeq(df_prompt,
                                          LAMBDA row : row["framework"] = Str(fw)),
                                metric))]]

\* plot_metrics_for_prompts for the next num_prompts value.
PlotMetricsForPrompts ==
    /\ pc = "plot"
    /\ script = "metric-perfs"
    /\ todo # <<>>
    /\ LET num_prompts == Head(todo)
           df_prompt == SelectSeq(df.rows, LAMBDA row : row["num_prompts"] = num_prompts)
       IN  IF df_prompt = <<>>
           THEN UNCHANGED <<charts, pc, status>> /\ todo' = Tail(todo)
           ELSE IF {"model_id", "framework", "mean_ttft_ms", "mean_tpot_ms",
                    "mean_itl_ms"} \subseteq df.columns
           THEN /\ charts' = Append(charts,
                        [num_prompts |-> num_prompts,
                         model_ids |-> unique([j \in 1..Len(df_prompt) |->
                                                  df_prompt[j]["model_id"]]),
                         summary |-> PromptSummary(df, num_prompts)])
                /\ todo' = Tail(todo)
                /\ UNCHANGED <<pc, status>>
           ELSE /\ status' = "KeyError"
                /\ pc' = "done"
                /\ UNCHANGED <<charts, todo>>
    /\ UNCHANGED <<script, file, i, data, errors, df, cw>>

\* The loop of main is over: main returns.
MainReturn ==
    /\ pc = "plot"
    /\ todo = <<>>
    /\ pc' = "done"
    /\ status' = "ok"
    /\ UNCHANGED <<script, file, i, data, errors, df, todo, charts, cw>>

\* ------------------------------------------------------------------ specification
NoCall == [v |-> None, s |-> None, called |-> FALSE,
           result |-> [Fastest |-> "", percent |-> Num(0),
                       compared |-> FALSE, divided |-> FALSE]]

Scripts == {"prompt-comparisons", "metric-perfs"}

\* The condition key a script groups by: prompt-comparisons by the columns it
\* passes to groupby beside framework, metric-perfs by the num_prompts value it
\* filters on before grouping by framework.
GroupingKey(sc) ==
    IF sc = "prompt-comparisons" THEN <<"num_prompts", "request_rate">>
    ELSE <<"num_prompts">>

\* A run of one of the two scripts on a results.json.
Init ==
    /\ script \in Scripts
    /\ file \in Files
    /\ i = 0
    /\ data = <<>>
    /\ errors = 0
    /\ pc = "load"
    /\ df = NoFrame
    /\ todo = <<>>
    /\ charts = <<>>
    /\ status = "running"
    /\ cw = NoCall

Next ==
    \/ LoadLine
    \/ LoadReturn
    \/ MainEmpty
    \/ MainPrepareSummary
    \/ PlotMetricSummary
    \/ MainPreparePrompts
    \/ PlotMetricsForPrompts
    \/ MainReturn

Spec == Init /\ [][Next]_vars

\* compute_winner on its own, called on any two values.
Values ==
    {Rat(n, d) : n \in 0..MaxNum, d \in 1..MaxDen} \cup {NaN, None, Inf}

InitWinner ==
    /\ script = "prompt-comparisons"
    /\ file = <<>>
    /\ i = 0
    /\ data = <<>>
    /\ errors = 0
    /\ pc = "call"
    /\ df = NoFrame
    /\ todo = <<>>
    /\ charts = <<>>
    /\ status = "running"
    /\ cw \in {[NoCall EXCEPT !.v = v, !.s = s] : v \in Values, s \in Values}

CallComputeWinner ==
    /\ pc = "call"
    /\ ~cw.called
    /\ cw' = [cw EXCEPT !.called = TRUE, !.result = compute_winner_run(cw.v, cw.s)]
    /\ UNCHANGED <<script, file, i, data, errors, pc, df, todo, charts, status>>

NextWinner == CallComputeWinner

SpecWinner == InitWinner /\ [][NextWinner]_vars

\* ------------------------------------------------------------------ compute_winner
Finite(x) == x.k = "num"

Missing(x) == x.k \in {"nan", "none"}

Abs(x) == IF x < 0 THEN -x ELSE x

\* m is p/q rounded to two decimals: a number of hundredths at most half a
\* hundredth away from p/q.
IsRounded2(m, p, q) ==
    /\ m.k = "num"
    /\ 100 % m.d = 0
    /\ 200 * Abs(m.n * q - p * m.d) <= m.d * q

\* C1: for present finite non-negative v # s, compute_winner(v, s) names the
\* framework with the smaller value ("vllm" for v, "sgl" for s), and its margin
\* is 100 * |v - s| / max(v, s) rounded to two decimals.
C1_SmallerWinsByShareOfLarger ==
    (cw.called /\ Finite(cw.v) /\ Finite(cw.s) /\ cw.v # cw.s) =>
        LET vLess == cw.v.n * cw.s.d < cw.s.n * cw.v.d
            hi == IF vLess THEN cw.s ELSE cw.v
            lo == IF vLess THEN cw.v ELSE cw.s
        IN  /\ cw.result.Fastest = (IF vLess THEN "vllm" ELSE "sgl")
            /\ IsRounded2(cw.result.percent,
                          100 * (hi.n * lo.d - lo.n * hi.d), hi.n * lo.d)

\* The example of the specification: v = 10, s = 15 gives (vllm, 33.33).
C1_Witness ==
    /\ cw.called
    /\ cw.v = Num(10)
    /\ cw.s = Num(15)
    /\ cw.result.Fastest = "vllm"
    /\ cw.result.percent = Rat(3333, 100)

\* C2: compute_winner(x, x) is ("Tie", 0) for every present finite x, zero
\* included, and "Tie" is returned only for two equal present values.
C2_TieIffEqual ==
    cw.called =>
        /\ (Finite(cw.v) /\ cw.v = cw.s) =>
              (cw.result.Fastest = "Tie" /\ cw.result.percent = Num(0))
        /\ cw.result.Fastest = "Tie" =>
              (~Missing(cw.v) /\ ~Missing(cw.s) /\ cw.v = cw.s)

\* The example of the specification: a = 20, b = 20 gives the tie.
C2_Witness ==
    /\ cw.called
    /\ cw.v = Num(20)
    /\ cw.s = Num(20)
    /\ cw.result.Fastest = "Tie"
    /\ cw.result.percent = Num(0)

\* C3: when v or s is missing (None or NaN), whatever the other is, the result
\* is ("N/A", 0) and neither a comparison nor a division was executed.
C3_MissingIsNotAvailable ==
    (cw.called /\ (Missing(cw.v) \/ Missing(cw.s))) =>
        /\ cw.result.Fastest = "N/A"
        /\ cw.result.percent = Num(0)
        /\ ~cw.result.compared
        /\ ~cw.result.divided

\* A number against NaN.
C3_Witness ==
    /\ cw.called
    /\ cw.v = Num(10)
    /\ cw.s = NaN
    /\ cw.result.Fastest = "N/A"

\* ------------------------------------------------------------------ aggregation
\* The projection of a row of the frame on a condition key.
Project(row, key) == [m \in 1..Len(key) |-> row[key[m]]]

\* The rows of the frame of one condition and one framework that hold the metric.
Members(key, cond, fw, metric) ==
    {h \in 1..Len(df.rows) :
        /\ Project(df.rows[h], key) = cond
        /\ df.rows[h]["framework"] = Str(fw)
        /\ df.rows[h][metric].k = "num"}

\* The sum of the metric over a set of rows of the frame, as <<numerator,
\* denominator>>.
RECURSIVE Total(_, _)
Total(J, metric) ==
    IF J = {} THEN <<0, 1>>
    ELSE LET h == CHOOSE x \in J : TRUE
             rest == Total(J \ {h}, metric)
             x == df.rows[h][metric]
         IN  <<rest[1] * x.d + x.n * rest[2], rest[2] * x.d>>

\* cell is the arithmetic mean of the metric over the rows J (NaN over none).
IsMeanOf(cell, J, metric) ==
    IF J = {} THEN cell = NaN
    ELSE /\ cell.k = "num"
         /\ cell.n * Total(J, metric)[2] * Cardinality(J)
               = cell.d * Total(J, metric)[1]

PairKey == <<"num_prompts", "request_rate">>

PromptsKey == <<"num_prompts">>

MetricSet == {"mean_ttft_ms", "mean_tpot_ms", "mean_itl_ms"}

\* C4: every cell of an aggregate is the arithmetic mean of the metric over
\* exactly the records of that condition and that framework, and the winner of
\* a row is computed from the two means of that row.
C4_CellIsMeanOfItsOwnRecords ==
    /\ script = "prompt-comparisons" =>
          \A c \in 1..Len(charts) : \A j \in 1..Len(charts[c].summary) :
             LET r == charts[c].summary[j]
             IN  /\ \A fw \in DOMAIN r.cells :
                       IsMeanOf(r.cells[fw],
                                Members(PairKey, <<r.num_prompts, r.request_rate>>,
                                        fw, charts[c].metric),
                                charts[c].metric)
                 /\ <<r.Fastest, r.FasterBy>>
                       = compute_winner(r.cells["vllm"], r.cells["sgl"])
    /\ script = "metric-perfs" =>
          \A c \in 1..Len(charts) : \A fw \in DOMAIN charts[c].summary :
             \A metric \in MetricSet :
                IsMeanOf(charts[c].summary[fw][metric],
                         Members(PromptsKey, <<charts[c].num_prompts>>, fw, metric),
                         metric)

\* The example of the specification: (A, n=1, 10), (B, n=1, 20), (A, n=1, 30)
\* give the means 20 and 20, a tie.
C4_Witness ==
    /\ script = "prompt-comparisons"
    /\ Len(df.rows) = 3
    /\ charts # <<>>
    /\ charts[1].metric = "mean_ttft_ms"
    /\ Len(charts[1].summary) = 1
    /\ charts[1].summary[1].cells["vllm"] = Num(20)
    /\ charts[1].summary[1].cells["sgl"] = Num(20)
    /\ charts[1].summary[1].Fastest = "Tie"

\* The conditions (num_prompts, request_rate) of the frame.
Conditions == {Project(df.rows[h], PairKey) : h \in 1..Len(df.rows)}

HasRecords(cond, fw) ==
    \E h \in 1..Len(df.rows) :
        Project(df.rows[h], PairKey) = cond /\ df.rows[h]["framework"] = Str(fw)

\* C5: every condition of the input gets exactly one row, a condition that only
\* one framework has records for keeps its row with winner "N/A" and margin 0,
\* also when the other framework has no record at all, and nothing is raised.
C5_EveryConditionKeepsItsRow ==
    (script = "prompt-comparisons" /\ pc = "done" /\ ~empty(df)) =>
        /\ status = "ok"
        /\ Len(charts) = Len(metrics_to_summary)
        /\ \A c \in 1..Len(charts) :
              LET rows == charts[c].summary
              IN  /\ \A cond \in Conditions :
                        Cardinality({j \in 1..Len(rows) :
                            <<rows[j].num_prompts, rows[j].request_rate>> = cond}) = 1
                  /\ \A j \in 1..Len(rows) :
                        LET cond == <<rows[j].num_prompts, rows[j].request_rate>>
                        IN  (~HasRecords(cond, "vllm") \/ ~HasRecords(cond, "sgl")) =>
                               (rows[j].Fastest = "N/A" /\ rows[j].FasterBy = Num(0))

\* C6 as claimed: the rows ascend by num_prompts, rows equal on it by
\* request_rate; the charts of metric-perfs ascend by num_prompts.
C6_RowsAscendByPromptsThenRate ==
    /\ script = "prompt-comparisons" =>
          \A c \in 1..Len(charts) : \A j, h \in 1..Len(charts[c].summary) :
             j < h =>
                LET a == charts[c].summary[j]
                    b == charts[c].summary[h]
                IN  \/ Lt(a.num_prompts, b.num_prompts)
                    \/ /\ a.num_prompts = b.num_prompts
                       /\ Lt(a.request_rate, b.request_rate)
    /\ script = "metric-perfs" =>
          \A j, h \in 1..Len(charts) :
             j < h => Lt(charts[j].num_prompts, charts[h].num_prompts)

\* The first row of the frame with a num_prompts value.
FirstRow(np) ==
    CHOOSE h \in 1..Len(df.rows) :
        /\ df.rows[h]["num_prompts"] = np
        /\ \A g \in 1..(h - 1) : df.rows[g]["num_prompts"] # np

\* C6, amended: the rows of a summary of prompt-comparisons ascend by
\* request_rate, rows equal on it by num_prompts; the charts of metric-perfs
\* come in the order in which their num_prompts values first occur in the file.
C6_RowsAscendByRateThenPrompts ==
    /\ script = "prompt-comparisons" =>
          \A c \in 1..Len(charts) : \A j, h \in 1..Len(charts[c].summary) :
             j < h =>
                LET a == charts[c].summary[j]
                    b == charts[c].summary[h]
                IN  \/ Lt(a.request_rate, b.request_rate)
                    \/ /\ a.request_rate = b.request_rate
                       /\ Lt(a.num_prompts, b.num_prompts)
    /\ script = "metric-perfs" =>
          \A j, h \in 1..Len(charts) :
             j < h => FirstRow(charts[j].num_prompts) < FirstRow(charts[h].num_prompts)

\* A summary whose second row has fewer prompts than its first.
C6_Witness ==
    /\ script = "prompt-comparisons"
    /\ charts # <<>>
    /\ Len(charts[1].summary) >= 2
    /\ Lt(charts[1].summary[2].num_prompts, charts[1].summary[1].num_prompts)
    /\ Lt(charts[1].summary[1].request_rate, charts[1].summary[2].request_rate)

\* ------------------------------------------------------------------ loading
Blank(line) == strip(line) = <<>>

Parsable(line) == json_loads(strip(line)).ok

\* A file with the lines that are neither blank nor parsable removed.
Cleaned(f) == SelectSeq(f, LAMBDA line : Blank(line) \/ Parsable(line))

\* The parsed values of the lines of a file that are not blank, in file order.
RECURSIVE RecordsOf(_)
RecordsOf(f) ==
    IF f = <<>> THEN <<>>
    ELSE IF Blank(Head(f)) THEN RecordsOf(Tail(f))
    ELSE <<json_loads(strip(Head(f))).record>> \o RecordsOf(Tail(f))

\* The lines of a file that are neither blank nor parsable.
Malformed(f) == {j \in 1..Len(f) : ~Blank(f[j]) /\ ~Parsable(f[j])}

\* C7: a line that does not parse is skipped and loading goes on to the end of
\* the file: the records loaded are the parsed values of the non-blank parsable
\* lines read so far, in file order, and the aggregates of a finished run are
\* those of the file with its malformed lines removed.
C7_MalformedLinesAreSkipped ==
    /\ data = RecordsOf(Cleaned(SubSeq(file, 1, i)))
    /\ errors = Cardinality(Malformed(SubSeq(file, 1, i)))
    /\ pc # "load" => i = Len(file)
    /\ (pc = "done" /\ status = "ok") =>
          LET clean == DataFrame(RecordsOf(Cleaned(file)))
          IN  IF script = "prompt-comparisons"
              THEN /\ Len(charts) = Len(metrics_to_summary)
                   /\ \A c \in 1..Len(charts) :
                         charts[c].summary
                            = Summary(NormaliseRate(clean), metrics_to_summary[c]).rows
              ELSE \A c \in 1..Len(charts) :
                      charts[c].summary = PromptSummary(clean, charts[c].num_prompts)

\* A finished run over a file whose second line is the malformed one, between
\* two records.
C7_Witness ==
    /\ pc = "done"
    /\ status = "ok"
    /\ Len(file) = 3
    /\ file[2] = MalformedLine
    /\ errors = 1
    /\ Len(data) = 2
    /\ charts # <<>>

\* C8: when nothing was loaded (no line, blank lines only, unparsable lines
\* only) main returns with its message: no exception, no grouping, no chart.
C8_EmptyDatasetEndsQuietly ==
    /\ (pc \notin {"load", "loaded"} /\ data = <<>>) =>
          /\ pc = "done"
          /\ status = "empty"
          /\ charts = <<>>
          /\ todo = <<>>
          /\ df = NoFrame
    /\ (pc = "done" /\ \A j \in 1..Len(file) : file[j] \in {BlankLine, MalformedLine}) =>
          (status = "empty" /\ charts = <<>>)

\* A run over a file of a blank and an unparsable line, ended.
C8_Witness ==
    /\ pc = "done"
    /\ status = "empty"
    /\ Len(file) = 2
    /\ errors = 1
    /\ charts = <<>>

\* ------------------------------------------------------------------ condition keys
ConditionKeys ==
    {<<"num_prompts">>, <<"request_rate">>, <<"num_prompts", "request_rate">>}

\* C9 as claimed: the run groups by one of the three condition keys, and each
\* of the three is the key of a grouping the program can run.
C9_EveryKeyCanBeGroupedBy ==
    /\ GroupingKey(script) \in ConditionKeys
    /\ \A key \in ConditionKeys : \E sc \in Scripts : GroupingKey(sc) = key

\* The (condition, framework) pairs of the frame under a key.
FrameCells(key) ==
    {<<Project(df.rows[h], key), df.rows[h]["framework"].s>> : h \in 1..Len(df.rows)}

\* The (condition, framework) pairs a chart holds a mean for.
ChartCells(c) ==
    IF script = "prompt-comparisons"
    THEN LET rows == charts[c].summary
         IN  {<<<<rows[p[1]].num_prompts, rows[p[1]].request_rate>>, p[2]>> :
                 p \in {q \in (1..Len(rows)) \X {"vllm", "sgl"} :
                          rows[q[1]].cells[q[2]] # NaN}}
    ELSE {<<<<charts[c].num_prompts>>, fw>> : fw \in DOMAIN charts[c].summary}

\* C9, amended: the grouping runs with two fixed keys, the pair (num_prompts,
\* request_rate) in prompt-comparisons and num_prompts alone in metric-perfs,
\* never request_rate alone; under its key each chart holds one mean per
\* (condition, framework) that has records, and no other.
C9_GroupsByPairOrByPrompts ==
    /\ GroupingKey(script) \in {PairKey, PromptsKey}
    /\ GroupingKey(script) # <<"request_rate">>
    /\ script = "prompt-comparisons" =>
          \A c \in 1..Len(charts) : ChartCells(c) = FrameCells(GroupingKey(script))
    /\ script = "metric-perfs" =>
          /\ \A c \in 1..Len(charts) :
                ChartCells(c) = {x \in FrameCells(GroupingKey(script)) :
                                    x[1] = <<charts[c].num_prompts>>}
          /\ (pc = "done" /\ status = "ok") =>
                UNION {ChartCells(c) : c \in 1..Len(charts)}
                   = FrameCells(GroupingKey(script))

\* A finished run of metric-perfs with two charts, the first of them holding
\* both frameworks.
C9_Witness ==
    /\ script = "metric-perfs"
    /\ pc = "done"
    /\ status = "ok"
    /\ Len(charts) = 2
    /\ DOMAIN charts[1].summary = {"vllm", "sgl"}

\* ------------------------------------------------------------------ unbounded rate
\* The records loaded that a row of a summary aggregates.
RowRecords(row) ==
    {h \in 1..Len(data) :
        /\ data[h]["num_prompts"] = row.num_prompts
        /\ (IF to_numeric(data[h]["request_rate"]) = Inf
            THEN Num(InfinitePlaceholder)
            ELSE to_numeric(data[h]["request_rate"])) = row.request_rate}

\* C10: a row of the table is labelled "infinite" if and only if every record
\* aggregated into it had an unbounded request rate.
C10_InfiniteLabelMeansUnboundedRate ==
    script = "prompt-comparisons" =>
        \A c \in 1..Len(charts) : \A j \in 1..Len(charts[c].table) :
            (charts[c].table[j].request_rate = Str("infinite"))
               <=> \A h \in RowRecords(charts[c].summary[j]) :
                      to_numeric(data[h]["request_rate"]) = Inf

====
